---- MODULE Spec2Model ----
(***************************************************************************)
(* Vending machine simulation: the inventory, sales and financial ledgers  *)
(* kept in JSON files, the operations of models/inventory.py,              *)
(* models/sales.py and models/financials.py, and simulate_day of           *)
(* simulation.py.  Every read_json / write_json is one atomic step (the    *)
(* file lock of utils/file_manager.py); a thread runs one operation at a   *)
(* time, step by step.                                                     *)
(*                                                                         *)
(* Money is counted in units of 0.00001 so that round(x, 4) is not the     *)
(* identity.  Dates are ISO dates, written <<year, month, day>>.           *)
(* jobs is the set of job ids of the scheduler of app.py.                  *)
(***************************************************************************)
EXTENDS Integers, Sequences, FiniteSets, TLC

VARIABLES inventory, sales, financials, config, th, started, jobs

vars == <<inventory, sales, financials, config, th, started, jobs>>

(***************************************************************************)
(* Bounds of the model.                                                    *)
(***************************************************************************)
\* most units (stock + pending) an item may hold: orders beyond it are not tried
MaxUnits == 2
\* most day-transitions started in one behaviour of SpecDay
MaxDays == 2
\* the calls made in SpecConc
MaxCalls == 2
\* record_sale calls made directly
MaxSales == 3

None == <<>>

Threads == {"req", "sched"}

(***************************************************************************)
(* Calendar: datetime.date of the standard library.                        *)
(***************************************************************************)
IsLeap(y) == (y % 4 = 0) /\ ((y % 100 # 0) \/ (y % 400 = 0))

DaysInMonth(y, m) ==
    IF m = 2 THEN (IF IsLeap(y) THEN 29 ELSE 28)
    ELSE IF m \in {4, 6, 9, 11} THEN 30 ELSE 31

RECURSIVE DaysBeforeMonth(_, _)
DaysBeforeMonth(y, m) ==
    IF m = 1 THEN 0 ELSE DaysBeforeMonth(y, m - 1) + DaysInMonth(y, m - 1)

DaysBeforeYear(y) ==
    (y - 1) * 365 + ((y - 1) \div 4) - ((y - 1) \div 100) + ((y - 1) \div 400)

\* date.toordinal(): 0001-01-01 is day 1
ToOrdinal(d) == DaysBeforeYear(d[1]) + DaysBeforeMonth(d[1], d[2]) + d[3]

\* the dates the model can name: the months around the start date
DateUniverse ==
    {d \in {2025} \X (8 .. 9) \X (1 .. 31) : d[3] <= DaysInMonth(d[1], d[2])}

\* date.fromordinal()
FromOrdinal(n) == CHOOSE d \in DateUniverse : ToOrdinal(d) = n

\* date.weekday(): Monday is 0
Weekday(d) == (ToOrdinal(d) + 6) % 7

\* order of ISO strings YYYY-MM-DD: character by character, i.e. field by field
IsoLess(a, b) ==
    \/ a[1] < b[1]
    \/ a[1] = b[1] /\ a[2] < b[2]
    \/ a[1] = b[1] /\ a[2] = b[2] /\ a[3] < b[3]

StartDate == <<2025, 8, 30>>

(***************************************************************************)
(* Arithmetic of Python's round().                                         *)
(***************************************************************************)
\* n / unit rounded to the nearest integer, ties to even (n >= 0)
RoundHalfEven(n, unit) ==
    LET q == n \div unit
        r == n % unit
    IN  IF 2 * r < unit THEN q
        ELSE IF 2 * r > unit THEN q + 1
        ELSE IF q % 2 = 0 THEN q ELSE q + 1

\* round(x, 4) of an amount in units of 0.00001
Round4(x) == RoundHalfEven(x, 10) * 10

(***************************************************************************)
(* The inventory ledger (inventory.json).                                  *)
(***************************************************************************)
Items == {"Coke", "Chips"}

\* iteration order of the inventory dict (insertion order of DEFAULTS)
ItemOrder == <<"Coke", "Chips">>

\* an item name no inventory holds
UnknownItem == "Pepsi"

\* DEFAULTS["inventory.json"], two of its items with their prices, the stocks
\* scaled down (20 -> 1, 15 -> 0) so that an item sells out within a day
DefaultInventory ==
    [i \in Items |->
        IF i = "Coke"
        THEN [stock |-> 1, restock_pending |-> 0, restock_eta |-> None,
              cost_price |-> 50000, sell_price |-> 125000]
        ELSE [stock |-> 0, restock_pending |-> 0, restock_eta |-> None,
              cost_price |-> 30000, sell_price |-> 100000]]

\* the value of a local that holds no inventory
NoInv ==
    [i \in Items |->
        [stock |-> 0, restock_pending |-> 0, restock_eta |-> None,
         cost_price |-> 0, sell_price |-> 0]]

\* Python truth of a restock_eta: None is false, a date string is true
Truthy(eta) == eta # None

\* inventory.py set_price, line 19
SetPriceInv(inv, item, price) == [inv EXCEPT ![item].sell_price = price]

\* mutant: every item of the inventory gets a price of the map
AdjustPricesInv_EveryItem(inv, prices) ==
    [i \in DOMAIN inv |->
        [inv[i] EXCEPT !.sell_price =
                          prices[CHOOSE k \in DOMAIN prices : TRUE]]]

\* inventory.py adjust_prices, lines 24-26: prices is a dict item -> price
AdjustPricesInv(inv, prices) ==
    [i \in DOMAIN inv |->
        IF i \in DOMAIN prices
        THEN [inv[i] EXCEPT !.sell_price = prices[i]]
        ELSE inv[i]]

\* mutant: the minimum order quantity is not checked
PlaceOrderRaises_NoMinimum(inv, item, qty, min_qty) == item \notin DOMAIN inv

\* inventory.py place_order, lines 31-34: the two checks that raise ValueError
PlaceOrderRaises(inv, item, qty, min_qty) ==
    \/ item \notin DOMAIN inv
    \/ qty < min_qty

\* mutant: the order is due on the day it is placed
OrderEta_NoLeadTime(today, lead_time_days) == today

\* inventory.py place_order, lines 41-43: today + lead_time_days
OrderEta(today, lead_time_days) ==
    FromOrdinal(ToOrdinal(today) + lead_time_days)

\* mutant: an order placed while one is pending moves the ETA to its own
PlaceOrderInv_ResetEta(inv, item, qty, today, lead_time_days) ==
    [inv EXCEPT ![item].restock_pending =
                    IF Truthy(inv[item].restock_eta) THEN @ + qty ELSE qty,
                ![item].restock_eta = OrderEta(today, lead_time_days)]

\* mutant: an accepted order gets an ETA but its quantity is not added
PlaceOrderInv_Unrecorded(inv, item, qty, today, lead_time_days) ==
    IF Truthy(inv[item].restock_eta)
    THEN inv
    ELSE [inv EXCEPT ![item].restock_eta = OrderEta(today, lead_time_days)]

\* inventory.py place_order, lines 36-43
PlaceOrderInv(inv, item, qty, today, lead_time_days) ==
    IF Truthy(inv[item].restock_eta)
    THEN [inv EXCEPT ![item].restock_pending = @ + qty]
    ELSE [inv EXCEPT ![item].restock_pending = qty,
                     ![item].restock_eta = OrderEta(today, lead_time_days)]

\* inventory.py place_order, line 45: the returned dict
PlaceOrderResult(inv, item) ==
    [item |-> item,
     restock_pending |-> inv[item].restock_pending,
     restock_eta |-> inv[item].restock_eta]

\* mutant: an order whose ETA is the upto date itself is not due yet
RestockDue_Strict(data, upto) ==
    /\ data.restock_pending > 0
    /\ Truthy(data.restock_eta)
    /\ ToOrdinal(data.restock_eta) < ToOrdinal(upto)

\* inventory.py apply_restocks, lines 53-57: the item's order is due
RestockDue(data, upto) ==
    /\ data.restock_pending > 0
    /\ Truthy(data.restock_eta)
    /\ ToOrdinal(data.restock_eta) <= ToOrdinal(upto)

\* mutant: once an order is due, every pending order is applied
ApplyRestocksInv_IgnoreEta(inv, upto) ==
    [i \in DOMAIN inv |->
        IF inv[i].restock_pending > 0
        THEN [inv[i] EXCEPT !.stock = @ + inv[i].restock_pending,
                            !.restock_pending = 0,
                            !.restock_eta = None]
        ELSE inv[i]]

\* mutant: the pending quantity and the ETA are not cleared
ApplyRestocksInv_KeepPending(inv, upto) ==
    [i \in DOMAIN inv |->
        IF RestockDue(inv[i], upto)
        THEN [inv[i] EXCEPT !.stock = @ + inv[i].restock_pending]
        ELSE inv[i]]

\* mutant: the ETA of an applied order is not cleared
ApplyRestocksInv_KeepEta(inv, upto) ==
    [i \in DOMAIN inv |->
        IF RestockDue(inv[i], upto)
        THEN [inv[i] EXCEPT !.stock = @ + inv[i].restock_pending,
                            !.restock_pending = 0]
        ELSE inv[i]]

\* inventory.py apply_restocks, lines 58-60
ApplyRestocksInv(inv, upto) ==
    [i \in DOMAIN inv |->
        IF RestockDue(inv[i], upto)
        THEN [inv[i] EXCEPT !.stock = @ + inv[i].restock_pending,
                            !.restock_pending = 0,
                            !.restock_eta = None]
        ELSE inv[i]]

\* inventory.py apply_restocks, line 61: the applied list, in dict order
RECURSIVE AppliedFrom(_, _, _)
AppliedFrom(inv, upto, k) ==
    IF k > Len(ItemOrder) THEN <<>>
    ELSE LET item == ItemOrder[k]
             rest == AppliedFrom(inv, upto, k + 1)
         IN  IF RestockDue(inv[item], upto)
             THEN <<[item |-> item, qty |-> inv[item].restock_pending,
                     applied_on_or_before |-> upto]>> \o rest
             ELSE rest

Applied(inv, upto) == AppliedFrom(inv, upto, 1)

\* mutant: the last units cannot be deducted
DeductOk_Strict(inv, item, qty) ==
    /\ item \in DOMAIN inv
    /\ inv[item].stock > qty

\* mutant: the stock is not compared with the quantity
DeductOk_NoStockCheck(inv, item, qty) == item \in DOMAIN inv

\* inventory.py deduct_stock, lines 68-70
DeductOk(inv, item, qty) ==
    /\ item \in DOMAIN inv
    /\ inv[item].stock >= qty

\* mutant: the stock is not reduced
DeductInv_KeepStock(inv, item, qty) == inv

\* inventory.py deduct_stock, line 71
DeductInv(inv, item, qty) == [inv EXCEPT ![item].stock = @ - qty]

(***************************************************************************)
(* The sales ledger (sales.json) and the financial ledger                  *)
(* (financials.json).                                                      *)
(***************************************************************************)
\* mutant: the amounts are cut after the fourth decimal, not rounded
SaleRecord_Truncated(date, item, qty, revenue, cogs) ==
    [date |-> date, item |-> item, qty |-> qty,
     revenue |-> (revenue \div 10) * 10, cogs |-> (cogs \div 10) * 10]

\* sales.py record_sale, lines 12-18: the record appended
SaleRecord(date, item, qty, revenue, cogs) ==
    [date |-> date, item |-> item, qty |-> qty,
     revenue |-> Round4(revenue), cogs |-> Round4(cogs)]

\* sales.py sales_for_date, line 22, applied to the list read
SalesForDate(s, date) == SelectSeq(s, LAMBDA r : r.date = date)

\* the items that have a record in s
ItemsSold(s) == {s[k].item : k \in DOMAIN s}

\* mutant: agg[item] is assigned, not accumulated
CogsPerProduct_LastSale(s) ==
    [i \in ItemsSold(s) |->
        LET last == CHOOSE k \in DOMAIN s :
                       /\ s[k].item = i
                       /\ \A j \in DOMAIN s : s[j].item = i => j <= k
        IN  s[last].cogs]

\* sales.py cogs_per_product, lines 28-30: agg after the loop over s
RECURSIVE CogsAgg(_)
CogsAgg(s) ==
    IF s = <<>> THEN <<>>
    ELSE LET agg == CogsAgg(SubSeq(s, 1, Len(s) - 1))
             r == s[Len(s)]
         IN  [i \in DOMAIN agg \cup {r.item} |->
                 IF i = r.item
                 THEN (IF i \in DOMAIN agg THEN agg[i] ELSE 0) + r.cogs
                 ELSE agg[i]]

\* sales.py cogs_per_product, lines 27-31
CogsPerProduct(s) == CogsAgg(s)

RECURSIVE SumField(_, _)
\* sum(float(r[field]) for r in records)
SumField(records, field) ==
    IF records = <<>> THEN 0
    ELSE (IF field = "revenue" THEN Head(records).revenue
          ELSE IF field = "cogs" THEN Head(records).cogs
          ELSE Head(records).qty)
         + SumField(Tail(records), field)

RECURSIVE SumValues(_)
\* sum(float(v) for v in d.values())
SumValues(d) ==
    IF DOMAIN d = {} THEN 0
    ELSE LET k == CHOOSE x \in DOMAIN d : TRUE
         IN  d[k] + SumValues([x \in (DOMAIN d) \ {k} |-> d[x]])

\* mutant: a day without sales is charged no expenses
DailyEntry_NoSalesNoExpenses(sales_records, expenses_cfg) ==
    LET revenue == SumField(sales_records, "revenue")
        cogs == SumField(sales_records, "cogs")
        expenses == IF sales_records = <<>> THEN 0
                    ELSE SumValues(expenses_cfg)
        profit == revenue - (cogs + expenses)
    IN  [revenue |-> Round4(revenue), cogs |-> Round4(cogs),
         expenses |-> Round4(expenses), profit |-> Round4(profit)]

\* mutant: the parentheses of line 14 are missing
DailyEntry_NoParentheses(sales_records, expenses_cfg) ==
    LET revenue == SumField(sales_records, "revenue")
        cogs == SumField(sales_records, "cogs")
        expenses == SumValues(expenses_cfg)
        profit == revenue - cogs + expenses
    IN  [revenue |-> Round4(revenue), cogs |-> Round4(cogs),
         expenses |-> Round4(expenses), profit |-> Round4(profit)]

\* financials.py update_daily, lines 11-14 and 17-22: the entry stored
DailyEntry(sales_records, expenses_cfg) ==
    LET revenue == SumField(sales_records, "revenue")
        cogs == SumField(sales_records, "cogs")
        expenses == SumValues(expenses_cfg)
        profit == revenue - (cogs + expenses)
    IN  [revenue |-> Round4(revenue), cogs |-> Round4(cogs),
         expenses |-> Round4(expenses), profit |-> Round4(profit)]

\* mutant: an entry the date already has is added to, not replaced
PutEntry_Accumulate(f, date, entry) ==
    [d \in (DOMAIN f) \cup {date} |->
        IF d # date THEN f[d]
        ELSE IF d \in DOMAIN f
        THEN [revenue |-> f[d].revenue + entry.revenue,
              cogs |-> f[d].cogs + entry.cogs,
              expenses |-> f[d].expenses + entry.expenses,
              profit |-> f[d].profit + entry.profit]
        ELSE entry]

\* financials.py update_daily, line 16: f[date_iso] = entry
PutEntry(f, date, entry) ==
    [d \in (DOMAIN f) \cup {date} |-> IF d = date THEN entry ELSE f[d]]

\* v[field] of a Financial Entry
EntryField(v, field) ==
    CASE field = "revenue" -> v.revenue
      [] field = "cogs" -> v.cogs
      [] field = "expenses" -> v.expenses
      [] field = "profit" -> v.profit

\* financials.py aggregate_profitability, lines 40-44: total[field] summed
\* over f.values(), here over the entries of the dates in days
RECURSIVE TotalOf(_, _, _)
TotalOf(f, days, field) ==
    IF days = {} THEN 0
    ELSE LET d == CHOOSE x \in days : TRUE
         IN  EntryField(f[d], field) + TotalOf(f, days \ {d}, field)

\* mutant: the total profit is the total revenue less the total cogs
AggregateProfitability_GrossProfit(f) ==
    [total |->
        [k \in {"revenue", "cogs", "expenses", "profit"} |->
            IF k = "profit"
            THEN Round4(TotalOf(f, DOMAIN f, "revenue")
                            - TotalOf(f, DOMAIN f, "cogs"))
            ELSE Round4(TotalOf(f, DOMAIN f, k))],
     per_day |-> f]

\* financials.py aggregate_profitability, lines 37-48: the result
AggregateProfitability(f) ==
    IF DOMAIN f = {}
    THEN [total |-> [revenue |-> 0, cogs |-> 0, expenses |-> 0, profit |-> 0],
          per_day |-> f]
    ELSE [total |->
            [k \in {"revenue", "cogs", "expenses", "profit"} |->
                Round4(TotalOf(f, DOMAIN f, k))],
          per_day |-> f]

\* mutant: the keys are written day first, DD-MM-YYYY
IsoFormat_DayFirst(d) ==
    <<48 + (d[3] \div 10), 48 + (d[3] % 10), 45,
      48 + (d[2] \div 10), 48 + (d[2] % 10), 45,
      48 + (d[1] \div 1000), 48 + ((d[1] \div 100) % 10),
      48 + ((d[1] \div 10) % 10), 48 + (d[1] % 10)>>

\* date.isoformat(): the characters of YYYY-MM-DD, as code points
IsoFormat(d) ==
    <<48 + (d[1] \div 1000), 48 + ((d[1] \div 100) % 10),
      48 + ((d[1] \div 10) % 10), 48 + (d[1] % 10), 45,
      48 + (d[2] \div 10), 48 + (d[2] % 10), 45,
      48 + (d[3] \div 10), 48 + (d[3] % 10)>>

\* a < b for two str: the order sorted() uses at financials.py line 33
RECURSIVE StrLess(_, _)
StrLess(a, b) ==
    IF b = <<>> THEN FALSE
    ELSE IF a = <<>> THEN TRUE
    ELSE IF Head(a) # Head(b) THEN Head(a) < Head(b)
    ELSE StrLess(Tail(a), Tail(b))

\* financials.py latest_day, lines 29-33
LatestDay(f) ==
    IF DOMAIN f = {} THEN None
    ELSE CHOOSE d \in DOMAIN f :
            \A e \in DOMAIN f : ~StrLess(IsoFormat(d), IsoFormat(e))

(***************************************************************************)
(* The configuration (config.json).                                        *)
(***************************************************************************)
\* DEFAULTS["config.json"]; the sales volume and minimum order scaled down
\* (5..20 sales a day -> 1..2, minimum order 10 -> 2, lead time 2 -> 1)
DefaultConfig ==
    [operating_expenses |-> [electricity |-> 100000, maintenance |-> 100000],
     sales_simulation |->
        [min_sales_per_day |-> 1,
         max_sales_per_day |-> 2,
         dow_multipliers |->
            [d \in 0 .. 6 |->
                CASE d \in {0, 1} -> 100
                  [] d \in {2, 3} -> 105
                  [] d = 4 -> 110
                  [] d = 5 -> 90
                  [] d = 6 -> 85],
         max_affordable_price |-> 200000],
     supplier |-> [lead_time_days |-> 1, min_order_qty |-> 2],
     simulation |->
        [running |-> TRUE, current_date |-> StartDate,
         last_simulated_date |-> None],
     tick_seconds |-> 60]

\* mutant: the day number is raised, the month never changes
AdvanceOneDay_SameMonth(d) == <<d[1], d[2], d[3] + 1>>

\* mutant: the date is not advanced
AdvanceOneDay_SameDay(d) == d

\* file_manager.py advance_one_day
AdvanceOneDay(d) == FromOrdinal(ToOrdinal(d) + 1)

Max(a, b) == IF a >= b THEN a ELSE b

\* simulation.py _sales_volume_bounds, lines 19-22, for the base drawn at line 20
\* (multipliers are in hundredths; a missing weekday counts 1.0)
SalesVolume(cfg, dow, base) ==
    LET m == cfg.sales_simulation.dow_multipliers
        mult == IF dow \in DOMAIN m THEN m[dow] ELSE 100
    IN  Max(RoundHalfEven(base * mult, 100), 0)

\* k in d, for a dict d
Has(d, k) == k \in DOMAIN d

\* simulation.py line 48: float("inf"), above every price
Infinity == 1000000000

\* simulation.py line 48: the price limit of the configuration read
PriceLimit(cfg) ==
    IF Has(cfg.sales_simulation, "max_affordable_price")
    THEN cfg.sales_simulation.max_affordable_price
    ELSE Infinity

\* simulation.py _sales_volume_bounds, lines 17-19: a subscript that raises
SalesVolumeRaises(cfg) ==
    \/ ~Has(cfg.sales_simulation, "min_sales_per_day")
    \/ ~Has(cfg.sales_simulation, "max_sales_per_day")
    \/ ~Has(cfg.sales_simulation, "dow_multipliers")

\* mutant: the price limit is not checked
Candidates_AnyPrice(inv, price_limit) ==
    {k \in DOMAIN inv : inv[k].stock > 0}

\* mutant: an item that is out of stock is a candidate too
Candidates_AnyStock(inv, price_limit) ==
    {k \in DOMAIN inv : inv[k].sell_price <= price_limit}

\* simulation.py _pick_item, lines 26-30: the candidates
Candidates(inv, price_limit) ==
    {k \in DOMAIN inv : inv[k].stock > 0 /\ inv[k].sell_price <= price_limit}

(***************************************************************************)
(* Threads.  th[t] holds the position of thread t (pc), the operation it   *)
(* was asked to run with its arguments, the locals of the running          *)
(* functions and, once the operation has returned (pc = "idle"), its       *)
(* result.  pre is the ledgers as they were when the operation was called; *)
(* prev, kept for a call of place_order or apply_restocks, is the call of  *)
(* one of these two completed just before it.                              *)
(***************************************************************************)
\* no call kept
NoCall == [op |-> "none"]

IdleFrame ==
    [pc |-> "idle", op |-> "none", args |-> None, ret |-> None,
     raised |-> "none", pre |-> None, prev |-> NoCall,
     \* locals of the ledger function running: inv, s, f, cfg
     inv |-> NoInv, s |-> <<>>, f |-> <<>>, c |-> None,
     \* locals of simulate_day
     cfg |-> None, simulated_date |-> None, restocks |-> <<>>,
     sd_inv |-> NoInv, sales_count |-> 0, price_limit |-> 0, i |-> 0,
     item |-> None, sales_records |-> <<>>, fin |-> None,
     \* the inventory simulate_day read at line 45, kept for reference with
     \* simulated_date, sales_count and price_limit after the return
     inv0 |-> NoInv]

\* what is kept of the completed call of frame fr: for place_order the
\* arguments, the result and the item as it was before; for apply_restocks
\* the argument
Summary(fr) ==
    IF fr.op = "place_order" /\ fr.raised = "none"
    THEN [op |-> fr.op, item |-> fr.args.item, qty |-> fr.args.qty,
          today |-> fr.args.today, lead_time_days |-> fr.args.lead_time_days,
          ret |-> fr.ret, before |-> fr.pre.inventory[fr.args.item]]
    ELSE IF fr.op = "apply_restocks"
    THEN [op |-> fr.op, upto |-> fr.args.upto, ret |-> fr.ret]
    ELSE IF fr.op = "update_daily"
    THEN [op |-> fr.op, args |-> fr.args, ret |-> fr.ret]
    ELSE NoCall

Ledgers ==
    [inventory |-> inventory, sales |-> sales, financials |-> financials,
     config |-> config]

\* thread t is called with operation op and starts at pc0
Begin(t, op, args, pc0) ==
    /\ th[t].pc = "idle"
    /\ th' = [th EXCEPT ![t] =
                [IdleFrame EXCEPT !.pc = pc0, !.op = op, !.args = args,
                                  !.pre = Ledgers,
                                  !.prev = IF op \in {"place_order",
                                                       "apply_restocks",
                                                       "update_daily",
                                                       "latest_day"}
                                           THEN Summary(th[t]) ELSE NoCall]]

\* the running operation of t returns ret to its caller outside the model
Return(fr, ret) ==
    [fr EXCEPT !.pc = "idle", !.ret = ret,
               !.inv = NoInv, !.s = <<>>, !.f = <<>>, !.c = None,
               !.cfg = None, !.restocks = <<>>, !.sd_inv = NoInv,
               !.i = 0, !.item = None,
               !.sales_records = <<>>, !.fin = None]

\* the running operation of t raises ValueError
Raise(fr) == [Return(fr, None) EXCEPT !.raised = "ValueError"]

\* the running operation of t raises KeyError: d[k] of a dict without the key k
RaiseKey(fr) == [Return(fr, None) EXCEPT !.raised = "KeyError"]

Nested(t) == th[t].op = "simulate_day"

(***************************************************************************)
(* Arguments the callers pass.                                             *)
(***************************************************************************)
ItemArgs == Items \cup {UnknownItem}
\* 2.5 is above max_affordable_price; 1.23456 has a fifth decimal
PriceArgs == {250000}
PricedItemArgs == {"Coke", UnknownItem}
PricesArgs == {[i \in {"Coke", UnknownItem} |-> 123456]}
QtyArgs == {1, 2}
MinQtyArgs == {1, 2}
TodayArgs == {<<2025, 8, 30>>, <<2025, 8, 31>>}
LeadArgs == {0, 1}
UptoArgs == {<<2025, 8, 30>>, <<2025, 8, 31>>, <<2025, 9, 1>>}
\* update_daily: two dates; no record, the two records of the test scaled to
\* one unit each, and a record of 1.00004; the default expenses and a charge
\* of 0.00006
FinDateArgs == {<<2025, 8, 30>>, <<2025, 8, 31>>}
FinRecordArgs ==
    {<<>>,
     <<[revenue |-> 125000, cogs |-> 50000, qty |-> 1],
       [revenue |-> 100000, cogs |-> 30000, qty |-> 1]>>,
     <<[revenue |-> 100004, cogs |-> 0, qty |-> 1]>>}
FinExpenseArgs ==
    {[electricity |-> 100000, maintenance |-> 100000], [electricity |-> 6]}

\* the keys of the ledger latest_day is called on: three days of two months,
\* the earlier month with the greater day number
LedgerDateArgs == {<<2025, 8, 30>>, <<2025, 9, 1>>, <<2025, 9, 10>>}

(***************************************************************************)
(* inventory.py set_price                                                  *)
(***************************************************************************)
CallSetPrice(t) ==
    /\ \E item \in PricedItemArgs, price \in PriceArgs :
          Begin(t, "set_price", [item |-> item, price |-> price], "sp_read")
    /\ UNCHANGED <<inventory, sales, financials, config>>

\* line 16
SetPriceRead(t) ==
    /\ th[t].pc = "sp_read"
    /\ th' = [th EXCEPT ![t].inv = inventory, ![t].pc = "sp_save"]
    /\ UNCHANGED <<inventory, sales, financials, config, started, jobs>>

\* lines 17-20
SetPriceSave(t) ==
    /\ th[t].pc = "sp_save"
    /\ LET a == th[t].args
       IN  IF a.item \notin DOMAIN th[t].inv
           THEN /\ th' = [th EXCEPT ![t] = Raise(@)]
                /\ UNCHANGED inventory
           ELSE /\ inventory' = SetPriceInv(th[t].inv, a.item, a.price)
                /\ th' = [th EXCEPT ![t] = Return(@, "ok")]
    /\ UNCHANGED <<sales, financials, config, started, jobs>>

(***************************************************************************)
(* inventory.py adjust_prices                                              *)
(***************************************************************************)
CallAdjustPrices(t) ==
    /\ \E prices \in PricesArgs :
          Begin(t, "adjust_prices", [prices |-> prices], "ap_read")
    /\ UNCHANGED <<inventory, sales, financials, config>>

\* line 23
AdjustPricesRead(t) ==
    /\ th[t].pc = "ap_read"
    /\ th' = [th EXCEPT ![t].inv = inventory, ![t].pc = "ap_save"]
    /\ UNCHANGED <<inventory, sales, financials, config, started, jobs>>

\* lines 24-27
AdjustPricesSave(t) ==
    /\ th[t].pc = "ap_save"
    /\ inventory' = AdjustPricesInv(th[t].inv, th[t].args.prices)
    /\ th' = [th EXCEPT ![t] = Return(@, "ok")]
    /\ UNCHANGED <<sales, financials, config, started, jobs>>

(***************************************************************************)
(* inventory.py place_order                                                *)
(***************************************************************************)
CallPlaceOrder(t) ==
    /\ \E item \in ItemArgs, qty \in QtyArgs, today \in TodayArgs,
          min_qty \in MinQtyArgs, lead \in LeadArgs :
          /\ item \in Items =>
                inventory[item].stock + inventory[item].restock_pending + qty
                    <= MaxUnits
          /\ Begin(t, "place_order",
                   [item |-> item, qty |-> qty, today |-> today,
                    min_qty |-> min_qty, lead_time_days |-> lead], "po_read")
    /\ UNCHANGED <<inventory, sales, financials, config>>

\* line 30
PlaceOrderRead(t) ==
    /\ th[t].pc = "po_read"
    /\ th' = [th EXCEPT ![t].inv = inventory, ![t].pc = "po_save"]
    /\ UNCHANGED <<inventory, sales, financials, config, started, jobs>>

\* lines 31-45
PlaceOrderSave(t) ==
    /\ th[t].pc = "po_save"
    /\ LET a == th[t].args
           inv == th[t].inv
       IN  IF PlaceOrderRaises(inv, a.item, a.qty, a.min_qty)
           THEN /\ th' = [th EXCEPT ![t] = Raise(@)]
                /\ UNCHANGED inventory
           ELSE LET new == PlaceOrderInv(inv, a.item, a.qty, a.today,
                                         a.lead_time_days)
                IN  /\ inventory' = new
                    /\ th' = [th EXCEPT ![t] =
                                Return(@, PlaceOrderResult(new, a.item))]
    /\ UNCHANGED <<sales, financials, config, started, jobs>>

(***************************************************************************)
(* inventory.py apply_restocks, called by a handler or by simulate_day     *)
(* (simulation.py line 43)                                                 *)
(***************************************************************************)
CallApplyRestocks(t) ==
    /\ \E upto \in UptoArgs :
          Begin(t, "apply_restocks", [upto |-> upto], "ar_read")
    /\ UNCHANGED <<inventory, sales, financials, config>>

\* mutant: simulate_day applies the restocks due by the next day
UptoOf_NextDay(t) ==
    IF Nested(t) THEN AdvanceOneDay(th[t].simulated_date) ELSE th[t].args.upto

\* the upto_date_iso argument
UptoOf(t) == IF Nested(t) THEN th[t].simulated_date ELSE th[t].args.upto

\* line 49
ApplyRestocksRead(t) ==
    /\ th[t].pc = "ar_read"
    /\ th' = [th EXCEPT ![t].inv = inventory, ![t].pc = "ar_save"]
    /\ UNCHANGED <<inventory, sales, financials, config, started, jobs>>

\* lines 50-64
ApplyRestocksSave(t) ==
    /\ th[t].pc = "ar_save"
    /\ LET applied == Applied(th[t].inv, UptoOf(t))
       IN  /\ IF applied # <<>>
              THEN inventory' = ApplyRestocksInv(th[t].inv, UptoOf(t))
              ELSE UNCHANGED inventory
           /\ IF Nested(t)
              THEN th' = [th EXCEPT ![t].restocks = applied,
                                    ![t].inv = NoInv,
                                    ![t].pc = "sd_inv"]
              ELSE th' = [th EXCEPT ![t] = Return(@, applied)]
    /\ UNCHANGED <<sales, financials, config, started, jobs>>

(***************************************************************************)
(* inventory.py deduct_stock, called by a handler or by simulate_day       *)
(* (simulation.py line 55)                                                 *)
(***************************************************************************)
CallDeductStock(t) ==
    /\ \E item \in ItemArgs, qty \in QtyArgs :
          Begin(t, "deduct_stock", [item |-> item, qty |-> qty], "ds_read")
    /\ UNCHANGED <<inventory, sales, financials, config>>

DeductItemOf(t) == IF Nested(t) THEN th[t].item ELSE th[t].args.item
DeductQtyOf(t) == IF Nested(t) THEN 1 ELSE th[t].args.qty

\* line 67
DeductStockRead(t) ==
    /\ th[t].pc = "ds_read"
    /\ th' = [th EXCEPT ![t].inv = inventory, ![t].pc = "ds_save"]
    /\ UNCHANGED <<inventory, sales, financials, config, started, jobs>>

\* lines 68-74; in simulate_day, True goes on to line 56 and False to the
\* next iteration of the loop
DeductStockSave(t) ==
    /\ th[t].pc = "ds_save"
    /\ LET ok == DeductOk(th[t].inv, DeductItemOf(t), DeductQtyOf(t))
       IN  /\ IF ok
              THEN inventory' = DeductInv(th[t].inv, DeductItemOf(t),
                                          DeductQtyOf(t))
              ELSE UNCHANGED inventory
           /\ IF Nested(t)
              THEN th' = [th EXCEPT ![t].inv = NoInv,
                                    ![t].i = IF ok THEN @ ELSE @ + 1,
                                    ![t].pc = IF ok THEN "sd_reload"
                                              ELSE "sd_pick"]
              ELSE th' = [th EXCEPT ![t] = Return(@, ok)]
    /\ UNCHANGED <<sales, financials, config, started, jobs>>

(***************************************************************************)
(* sales.py record_sale, called by simulate_day (simulation.py line 59)    *)
(***************************************************************************)
\* record_sale called as the test calls it: for two dates, two Cokes for 2.50
\* that cost 1.0, or one Chips for 1.00 that cost 0.3
SaleArgs ==
    {[date_iso |-> d, item |-> "Coke", qty |-> 2,
      revenue |-> 250000, cogs |-> 100000] :
        d \in {<<2025, 8, 30>>, <<2025, 8, 31>>}}
    \cup
    {[date_iso |-> d, item |-> "Chips", qty |-> 1,
      revenue |-> 100000, cogs |-> 30000] :
        d \in {<<2025, 8, 30>>, <<2025, 8, 31>>}}

CallRecordSale(t) ==
    /\ \E a \in SaleArgs : Begin(t, "record_sale", a, "rs_read")
    /\ UNCHANGED <<inventory, sales, financials, config>>

\* the record asked for: by simulate_day at lines 57-59, or by the caller
SaleOf(t) ==
    IF Nested(t)
    THEN SaleRecord(th[t].simulated_date, th[t].item, 1,
                    th[t].sd_inv[th[t].item].sell_price,
                    th[t].sd_inv[th[t].item].cost_price)
    ELSE SaleRecord(th[t].args.date_iso, th[t].args.item, th[t].args.qty,
                    th[t].args.revenue, th[t].args.cogs)

\* line 11
RecordSaleRead(t) ==
    /\ th[t].pc = "rs_read"
    /\ th' = [th EXCEPT ![t].s = sales, ![t].pc = "rs_save"]
    /\ UNCHANGED <<inventory, sales, financials, config, started, jobs>>

\* lines 12-19
RecordSaleSave(t) ==
    /\ th[t].pc = "rs_save"
    /\ sales' = Append(th[t].s, SaleOf(t))
    /\ th' = IF Nested(t)
             THEN [th EXCEPT ![t].s = <<>>, ![t].i = @ + 1,
                             ![t].pc = "sd_pick"]
             ELSE [th EXCEPT ![t] = Return(@, None)]
    /\ UNCHANGED <<inventory, financials, config, started, jobs>>

\* sales.py sales_for_date
CallSalesForDate(t) ==
    /\ \E d \in {<<2025, 8, 30>>, <<2025, 8, 31>>} :
          Begin(t, "sales_for_date", [date_iso |-> d], "sf_read")
    /\ UNCHANGED <<inventory, sales, financials, config>>

\* sales.py sales_for_date, line 22
SalesForDateRead(t) ==
    /\ th[t].pc = "sf_read"
    /\ th' = [th EXCEPT
                ![t] = Return(@, SalesForDate(sales, th[t].args.date_iso))]
    /\ UNCHANGED <<inventory, sales, financials, config, started, jobs>>

\* sales.py cogs_per_product
CallCogsPerProduct(t) ==
    /\ Begin(t, "cogs_per_product", None, "cp_read")
    /\ UNCHANGED <<inventory, sales, financials, config>>

\* sales.py cogs_per_product, lines 27-31
CogsPerProductRead(t) ==
    /\ th[t].pc = "cp_read"
    /\ th' = [th EXCEPT ![t] = Return(@, CogsPerProduct(sales))]
    /\ UNCHANGED <<inventory, sales, financials, config, started, jobs>>

(***************************************************************************)
(* simulation.py simulate_day                                              *)
(***************************************************************************)
CallSimulateDay(t) ==
    /\ Begin(t, "simulate_day", None, "sd_cfg")
    /\ UNCHANGED <<inventory, sales, financials, config>>

\* lines 37-40, then the call of apply_restocks at line 43
SdReadConfig(t) ==
    /\ th[t].pc = "sd_cfg"
    /\ th' = IF Has(config.simulation, "current_date")
             THEN [th EXCEPT
                      ![t].cfg = config,
                      ![t].simulated_date = config.simulation.current_date,
                      ![t].pc = "ar_read"]
             ELSE [th EXCEPT ![t] = RaiseKey(@)]
    /\ UNCHANGED <<inventory, sales, financials, config, started, jobs>>

\* lines 45-48: the inventory, the day's sales count and the price limit
SdGetInventory(t) ==
    /\ th[t].pc = "sd_inv"
    /\ LET ss == th[t].cfg.sales_simulation
       IN  IF SalesVolumeRaises(th[t].cfg)
           THEN th' = [th EXCEPT ![t] = RaiseKey(@)]
           ELSE \E base \in ss.min_sales_per_day .. ss.max_sales_per_day :
                   th' = [th EXCEPT
                            ![t].sd_inv = inventory,
                            ![t].inv0 = inventory,
                            ![t].sales_count =
                                SalesVolume(th[t].cfg,
                                            Weekday(th[t].simulated_date),
                                            base),
                            ![t].price_limit = PriceLimit(th[t].cfg),
                            ![t].i = 0,
                            ![t].pc = "sd_pick"]
    /\ UNCHANGED <<inventory, sales, financials, config, started, jobs>>

\* lines 50-55: the loop test, _pick_item, the break, the call of deduct_stock
SdPick(t) ==
    /\ th[t].pc = "sd_pick"
    /\ LET cands == Candidates(th[t].sd_inv, th[t].price_limit)
       IN  IF th[t].i >= th[t].sales_count \/ cands = {}
           THEN th' = [th EXCEPT ![t].pc = "sd_sales"]
           ELSE \E item \in cands :
                   th' = [th EXCEPT ![t].item = item, ![t].pc = "ds_read"]
    /\ UNCHANGED <<inventory, sales, financials, config, started, jobs>>

\* line 56, then the call of record_sale at line 59
SdReload(t) ==
    /\ th[t].pc = "sd_reload"
    /\ th' = [th EXCEPT ![t].sd_inv = inventory, ![t].pc = "rs_read"]
    /\ UNCHANGED <<inventory, sales, financials, config, started, jobs>>

\* line 63, then the call of update_daily at line 66, whose argument
\* cfg["operating_expenses"] is evaluated first
SdSalesForDate(t) ==
    /\ th[t].pc = "sd_sales"
    /\ th' = IF Has(th[t].cfg, "operating_expenses")
             THEN [th EXCEPT
                      ![t].sales_records =
                          SalesForDate(sales, th[t].simulated_date),
                      ![t].pc = "ud_read"]
             ELSE [th EXCEPT ![t] = RaiseKey(@)]
    /\ UNCHANGED <<inventory, sales, financials, config, started, jobs>>

\* financials.py update_daily, called with Financial Entries to store
CallUpdateDaily(t) ==
    /\ \E date \in FinDateArgs, records \in FinRecordArgs,
          expenses \in FinExpenseArgs :
          Begin(t, "update_daily",
                [date_iso |-> date, sales_records |-> records,
                 expenses_cfg |-> expenses], "ud_read")
    /\ UNCHANGED <<inventory, sales, financials, config>>

\* the arguments of update_daily: those simulate_day passes at line 66, or
\* the caller's
UdDateOf(t) ==
    IF Nested(t) THEN th[t].simulated_date ELSE th[t].args.date_iso
UdRecordsOf(t) ==
    IF Nested(t) THEN th[t].sales_records ELSE th[t].args.sales_records
UdExpensesOf(t) ==
    IF Nested(t) THEN th[t].cfg.operating_expenses
    ELSE th[t].args.expenses_cfg

\* financials.py update_daily, lines 11-15
UpdateDailyRead(t) ==
    /\ th[t].pc = "ud_read"
    /\ th' = [th EXCEPT ![t].f = financials, ![t].pc = "ud_save"]
    /\ UNCHANGED <<inventory, sales, financials, config, started, jobs>>

\* financials.py update_daily, lines 16-23
UpdateDailySave(t) ==
    /\ th[t].pc = "ud_save"
    /\ LET entry == DailyEntry(UdRecordsOf(t), UdExpensesOf(t))
       IN  /\ financials' = PutEntry(th[t].f, UdDateOf(t), entry)
           /\ th' = IF Nested(t)
                    THEN [th EXCEPT ![t].fin = entry, ![t].f = <<>>,
                                    ![t].pc = "sl_read"]
                    ELSE [th EXCEPT ![t] = Return(@, entry)]
    /\ UNCHANGED <<inventory, sales, config, started, jobs>>

\* financials.py update_daily, called to store an entry for any of the dates
CallStoreEntry(t) ==
    /\ \E date \in LedgerDateArgs, expenses \in FinExpenseArgs :
          Begin(t, "update_daily",
                [date_iso |-> date, sales_records |-> <<>>,
                 expenses_cfg |-> expenses], "ud_read")
    /\ UNCHANGED <<inventory, sales, financials, config>>

\* financials.py latest_day
CallLatestDay(t) ==
    /\ Begin(t, "latest_day", None, "ld_read")
    /\ UNCHANGED <<inventory, sales, financials, config>>

\* financials.py latest_day, lines 29-33
LatestDayRead(t) ==
    /\ th[t].pc = "ld_read"
    /\ th' = [th EXCEPT ![t] = Return(@, LatestDay(financials))]
    /\ UNCHANGED <<inventory, sales, financials, config, started, jobs>>

\* financials.py aggregate_profitability
CallAggregateProfitability(t) ==
    /\ Begin(t, "aggregate_profitability", None, "ap_read")
    /\ UNCHANGED <<inventory, sales, financials, config>>

\* financials.py aggregate_profitability, lines 36-48
AggregateRead(t) ==
    /\ th[t].pc = "ap_read"
    /\ th' = [th EXCEPT ![t] = Return(@, AggregateProfitability(financials))]
    /\ UNCHANGED <<inventory, sales, financials, config, started, jobs>>

\* file_manager.py set_last_simulated_date, line 91
SetLastSimulatedRead(t) ==
    /\ th[t].pc = "sl_read"
    /\ th' = [th EXCEPT ![t].c = config, ![t].pc = "sl_save"]
    /\ UNCHANGED <<inventory, sales, financials, config, started, jobs>>

\* file_manager.py set_last_simulated_date, lines 92-93
SetLastSimulatedSave(t) ==
    /\ th[t].pc = "sl_save"
    /\ config' = [th[t].c EXCEPT
                    !.simulation.last_simulated_date = th[t].simulated_date]
    /\ th' = [th EXCEPT ![t].c = None, ![t].pc = "cd_read"]
    /\ UNCHANGED <<inventory, sales, financials, started, jobs>>

\* file_manager.py set_current_date, line 86
SetCurrentDateRead(t) ==
    /\ th[t].pc = "cd_read"
    /\ th' = [th EXCEPT ![t].c = config, ![t].pc = "cd_save"]
    /\ UNCHANGED <<inventory, sales, financials, config, started, jobs>>

\* simulation.py lines 73-81: the summary returned
DaySummary(fr) ==
    [date |-> fr.simulated_date,
     sales_count |-> SumField(fr.sales_records, "qty"),
     revenue |-> fr.fin.revenue, cogs |-> fr.fin.cogs,
     expenses |-> fr.fin.expenses, profit |-> fr.fin.profit,
     restocks_applied |-> fr.restocks]

\* file_manager.py set_current_date, lines 87-88, with the next day of
\* simulation.py line 70; then simulate_day returns
SetCurrentDateSave(t) ==
    /\ th[t].pc = "cd_save"
    /\ config' = [th[t].c EXCEPT
                    !.simulation.current_date =
                        AdvanceOneDay(th[t].simulated_date)]
    /\ th' = [th EXCEPT ![t] = Return(@, DaySummary(th[t]))]
    /\ UNCHANGED <<inventory, sales, financials, started, jobs>>

(***************************************************************************)
(* app.py: the handlers of /inventory/order and /inventory/restock, which  *)
(* take the date, the minimum order and the lead time from config.json     *)
(***************************************************************************)
\* app.py lines 53-62; qty <= 0 is refused at line 59
CallInventoryOrder(t) ==
    /\ \E item \in ItemArgs, qty \in QtyArgs :
          /\ item \in Items =>
                inventory[item].stock + inventory[item].restock_pending + qty
                    <= MaxUnits
          /\ Begin(t, "place_order",
                   [item |-> item, qty |-> qty,
                    today |-> config.simulation.current_date,
                    min_qty |-> config.supplier.min_order_qty,
                    lead_time_days |-> config.supplier.lead_time_days],
                   "po_read")
    /\ UNCHANGED <<inventory, sales, financials, config>>

\* app.py lines 69-71
CallInventoryRestock(t) ==
    /\ Begin(t, "apply_restocks",
             [upto |-> config.simulation.current_date], "ar_read")
    /\ UNCHANGED <<inventory, sales, financials, config>>

(***************************************************************************)
(* app.py: the scheduler's jobs.  jobs holds the ids of the jobs of the    *)
(* BackgroundScheduler of line 14.                                         *)
(***************************************************************************)
\* _schedule_job, lines 15-25, on the configuration cfg it read at line 16:
\* when running it removes every job and adds the job daily_tick; otherwise
\* it leaves the scheduler as it is
ScheduledJobs(cfg, js) ==
    LET running == IF Has(cfg.simulation, "running")
                   THEN cfg.simulation.running ELSE TRUE
    IN  IF running THEN {"daily_tick"} ELSE js

(***************************************************************************)
(* app.py: the handler of /config                                          *)
(***************************************************************************)
\* lines 133-138: the allowed top-level keys of the request replace those of
\* the configuration
ConfigUpdated(cfg, data) ==
    LET allowed == {"operating_expenses", "sales_simulation", "supplier",
                    "simulation", "tick_seconds"}
        changed == (DOMAIN data) \cap allowed
    IN  [k \in (DOMAIN cfg) \cup changed |->
            IF k \in changed THEN data[k] ELSE cfg[k]]

\* a request that sets the simulation back to its first date
ConfigArgs ==
    {[simulation |-> [running |-> TRUE, current_date |-> StartDate,
                      last_simulated_date |-> None]]}

\* requests of an administrator: the date set back, and an electricity charge
\* of 1.00004 a day
AdminArgs ==
    ConfigArgs \cup
    {[operating_expenses |-> [electricity |-> 100004, maintenance |-> 100000]]}

CallConfigAdmin(t) ==
    /\ \E data \in AdminArgs : Begin(t, "config_update", data, "cu_read")
    /\ UNCHANGED <<inventory, sales, financials, config>>

\* d without its key k
Without(d, k) == [j \in DOMAIN d \ {k} |-> d[j]]

\* requests that replace a section of the configuration by one that lacks a
\* field: cfg[k] = v at line 136 stores the section as it was sent
PartialArgs ==
    LET ss == DefaultConfig.sales_simulation
    IN  {[sales_simulation |-> Without(ss, "min_sales_per_day")],
         [sales_simulation |-> Without(ss, "max_sales_per_day")],
         [sales_simulation |-> Without(ss, "max_affordable_price")],
         [sales_simulation |->
            [ss EXCEPT !.dow_multipliers = Without(@, Weekday(StartDate))]],
         [simulation |-> Without(DefaultConfig.simulation, "current_date")]}

CallConfigPartial(t) ==
    /\ \E data \in PartialArgs : Begin(t, "config_update", data, "cu_read")
    /\ UNCHANGED <<inventory, sales, financials, config>>

CallConfigUpdate(t) ==
    /\ \E data \in ConfigArgs : Begin(t, "config_update", data, "cu_read")
    /\ UNCHANGED <<inventory, sales, financials, config>>

\* a request that sets or clears the running flag and sends the rest of the
\* simulation section as config.json has it
CallConfigRunning(t) ==
    /\ \E b \in BOOLEAN :
          Begin(t, "config_update",
                [simulation |-> [config.simulation EXCEPT !.running = b]],
                "cu_read")
    /\ UNCHANGED <<inventory, sales, financials, config>>

\* line 131
ConfigUpdateRead(t) ==
    /\ th[t].pc = "cu_read"
    /\ th' = [th EXCEPT ![t].c = config, ![t].pc = "cu_save"]
    /\ UNCHANGED <<inventory, sales, financials, config, started, jobs>>

\* lines 133-141 and, when _schedule_job is not called, the return at line
\* 143; cfg stays in the frame for the return after _schedule_job
ConfigUpdateSave(t) ==
    /\ th[t].pc = "cu_save"
    /\ config' = ConfigUpdated(th[t].c, th[t].args)
    /\ th' = IF {"simulation", "tick_seconds"} \cap DOMAIN th[t].args # {}
             THEN [th EXCEPT ![t].c = config', ![t].pc = "cu_sched"]
             ELSE [th EXCEPT ![t] = Return(@, config')]
    /\ UNCHANGED <<inventory, sales, financials, started, jobs>>

\* the call of _schedule_job at line 142, which reads config.json again, and
\* the return at line 143
ConfigUpdateSchedule(t) ==
    /\ th[t].pc = "cu_sched"
    /\ jobs' = ScheduledJobs(config, jobs)
    /\ th' = [th EXCEPT ![t] = Return(@, th[t].c)]
    /\ UNCHANGED <<inventory, sales, financials, config, started>>

\* the scheduler fires its job: simulate_day, the function registered at line
\* 23, runs in the scheduler's thread; a job runs one instance at a time
JobFires ==
    /\ "daily_tick" \in jobs
    /\ CallSimulateDay("sched")

(***************************************************************************)
(* Specifications.                                                         *)
(***************************************************************************)
Init ==
    /\ inventory = DefaultInventory
    /\ sales = <<>>
    /\ financials = <<>>
    /\ config = DefaultConfig
    /\ th = [t \in Threads |-> IdleFrame]
    /\ started = 0
    /\ jobs = ScheduledJobs(config, {})

\* the steps of apply_restocks and deduct_stock, which simulate_day calls
RunStock(t) ==
    \/ ApplyRestocksRead(t) \/ ApplyRestocksSave(t)
    \/ DeductStockRead(t) \/ DeductStockSave(t)

\* the steps of the order book: place_order, apply_restocks, deduct_stock
RunOrders(t) == PlaceOrderRead(t) \/ PlaceOrderSave(t) \/ RunStock(t)

\* the steps of set_price and adjust_prices
RunPrices(t) ==
    \/ SetPriceRead(t) \/ SetPriceSave(t)
    \/ AdjustPricesRead(t) \/ AdjustPricesSave(t)

\* the steps of simulate_day and of what it calls
RunDay(t) ==
    \/ SdReadConfig(t) \/ SdGetInventory(t)
    \/ SdPick(t) \/ SdReload(t)
    \/ RecordSaleRead(t) \/ RecordSaleSave(t)
    \/ SdSalesForDate(t)
    \/ UpdateDailyRead(t) \/ UpdateDailySave(t)
    \/ SetLastSimulatedRead(t) \/ SetLastSimulatedSave(t)
    \/ SetCurrentDateRead(t) \/ SetCurrentDateSave(t)

\* The functions of models/inventory.py that keep the order book, called one
\* after another with any arguments.
NextOrders ==
    \/ /\ \/ CallPlaceOrder("req") \/ CallApplyRestocks("req")
          \/ CallDeductStock("req")
       /\ UNCHANGED <<started, jobs>>
    \/ RunOrders("req")

SpecOrders == Init /\ [][NextOrders]_vars

\* the steps of the /config handler
RunConfig(t) ==
    ConfigUpdateRead(t) \/ ConfigUpdateSave(t) \/ ConfigUpdateSchedule(t)

\* The application, one request at a time: orders through the handler, price
\* changes, day-transitions and the date set back once it has advanced;
\* started counts the day-transitions.
NextDay ==
    \/ /\ \/ CallInventoryOrder("req")
          \/ CallSetPrice("req") \/ CallAdjustPrices("req")
          \/ /\ config.simulation.current_date # StartDate
             /\ CallConfigUpdate("req")
       /\ UNCHANGED <<started, jobs>>
    \/ /\ started < MaxDays
       /\ started' = started + 1
       /\ UNCHANGED jobs
       /\ CallSimulateDay("req")
    \/ RunOrders("req") \/ RunPrices("req") \/ RunDay("req")
    \/ RunConfig("req")

SpecDay == Init /\ [][NextDay]_vars

\* The Financial Ledger: update_daily and aggregate_profitability called one
\* after another with any arguments, and day-transitions.
NextFin ==
    \/ /\ CallUpdateDaily("req") \/ CallAggregateProfitability("req")
       /\ UNCHANGED <<started, jobs>>
    \/ /\ started < MaxDays
       /\ started' = started + 1
       /\ UNCHANGED jobs
       /\ CallSimulateDay("req")
    \/ AggregateRead("req")
    \/ RunDay("req") \/ RunStock("req")

SpecFin == Init /\ [][NextFin]_vars

\* The functions of models/financials.py that read the ledger, called between
\* calls of update_daily for dates in any order.
NextLedger ==
    \/ /\ CallStoreEntry("req") \/ CallLatestDay("req")
       /\ UNCHANGED <<started, jobs>>
    \/ UpdateDailyRead("req") \/ UpdateDailySave("req")
    \/ LatestDayRead("req")

SpecLedger == Init /\ [][NextLedger]_vars

\* The functions of models/sales.py, called one after another; started counts
\* the record_sale calls.
NextSales ==
    \/ /\ started < MaxSales
       /\ started' = started + 1
       /\ UNCHANGED jobs
       /\ CallRecordSale("req")
    \/ /\ CallSalesForDate("req") \/ CallCogsPerProduct("req")
       /\ UNCHANGED <<started, jobs>>
    \/ RecordSaleRead("req") \/ RecordSaleSave("req")
    \/ SalesForDateRead("req") \/ CogsPerProductRead("req")

SpecSales == Init /\ [][NextSales]_vars

\* A day on which an order of Chips is due (as in InitConc), with
\* config.json as ensure_defaults wrote it, or with the operating_expenses
\* section deleted by hand: ensure_defaults (file_manager.py lines 62-68)
\* writes a file only when it does not exist, and /config can replace a
\* section but not delete one
InitConfig ==
    /\ inventory = [DefaultInventory EXCEPT
                        !["Chips"].restock_pending = 2,
                        !["Chips"].restock_eta = StartDate]
    /\ sales = <<>>
    /\ financials = <<>>
    /\ config \in {DefaultConfig, Without(DefaultConfig, "operating_expenses")}
    /\ th = [t \in Threads |-> IdleFrame]
    /\ started = 0
    /\ jobs = ScheduledJobs(config, {})

\* Day-transitions on configurations that lack a field, one request at a time.
NextConfig ==
    \/ /\ CallConfigPartial("req")
       /\ UNCHANGED <<started, jobs>>
    \/ /\ started < MaxDays
       /\ started' = started + 1
       /\ UNCHANGED jobs
       /\ CallSimulateDay("req")
    \/ RunConfig("req") \/ RunDay("req") \/ RunStock("req")

SpecConfig == InitConfig /\ [][NextConfig]_vars

\* The application run by an administrator: configuration updates, orders,
\* price lists and day-transitions, one request at a time.
NextAdmin ==
    \/ /\ \/ CallConfigAdmin("req")
          \/ CallInventoryOrder("req") \/ CallAdjustPrices("req")
       /\ UNCHANGED <<started, jobs>>
    \/ /\ started < MaxDays
       /\ started' = started + 1
       /\ UNCHANGED jobs
       /\ CallSimulateDay("req")
    \/ RunConfig("req") \/ RunDay("req") \/ RunOrders("req")
    \/ AdjustPricesRead("req") \/ AdjustPricesSave("req")

SpecAdmin == Init /\ [][NextAdmin]_vars

\* The application with its two threads: the scheduler's job runs
\* simulate_day (app.py line 23) while a request thread runs a handler, every
\* read_json and write_json one step under _FILE_LOCK.  It starts on a day on
\* which an order for Chips is due; started counts the calls.
InitConc ==
    /\ inventory = [DefaultInventory EXCEPT
                        !["Chips"].restock_pending = 2,
                        !["Chips"].restock_eta = StartDate]
    /\ sales = <<>>
    /\ financials = <<>>
    /\ config = DefaultConfig
    /\ th = [t \in Threads |-> IdleFrame]
    /\ started = 0
    /\ jobs = ScheduledJobs(config, {})

NextConc ==
    \/ /\ started < MaxCalls
       /\ started' = started + 1
       /\ UNCHANGED jobs
       /\ \/ JobFires
          \/ CallInventoryOrder("req") \/ CallInventoryRestock("req")
          \/ CallSetPrice("req") \/ CallAdjustPrices("req")
    \/ RunDay("sched") \/ RunStock("sched")
    \/ RunOrders("req") \/ RunPrices("req")

SpecConc == InitConc /\ [][NextConc]_vars

\* Day-transitions one after another from the day of InitConc, with latest_day
\* called between them.
NextClock ==
    \/ /\ started < MaxDays
       /\ started' = started + 1
       /\ UNCHANGED jobs
       /\ CallSimulateDay("req")
    \/ /\ CallLatestDay("req")
       /\ UNCHANGED <<started, jobs>>
    \/ RunDay("req") \/ RunStock("req")
    \/ LatestDayRead("req")

SpecClock == InitConc /\ [][NextClock]_vars

\* a day on which both items are in stock
OverlapInventory == [DefaultInventory EXCEPT !["Chips"].stock = 1]

InitOverlap ==
    /\ inventory = OverlapInventory
    /\ sales = <<>>
    /\ financials = <<>>
    /\ config = DefaultConfig
    /\ th = [t \in Threads |-> IdleFrame]
    /\ started = 0
    /\ jobs = ScheduledJobs(config, {})

\* The scheduler's job (app.py line 23) and the handler of /simulate/day
\* (app.py lines 41-44) both run simulate_day, each in its thread; nothing but
\* _FILE_LOCK around each read_json and write_json orders their steps.
NextOverlap ==
    \/ /\ started < MaxCalls
       /\ started' = started + 1
       /\ UNCHANGED jobs
       /\ JobFires \/ CallSimulateDay("req")
    \/ RunDay("sched") \/ RunStock("sched")
    \/ RunDay("req") \/ RunStock("req")

SpecOverlap == InitOverlap /\ [][NextOverlap]_vars

\* the simulation as ensure_defaults wrote it, and stopped
InitSchedule ==
    /\ inventory = DefaultInventory
    /\ sales = <<>>
    /\ financials = <<>>
    /\ config \in {DefaultConfig,
                   [DefaultConfig EXCEPT !.simulation.running = FALSE]}
    /\ th = [t \in Threads |-> IdleFrame]
    /\ started = 0
    /\ jobs = ScheduledJobs(config, {})

\* The scheduler's job beside the handlers of /simulate/day and of /config,
\* which is sent the simulation section with its running flag set or
\* cleared; started counts the calls.
NextSchedule ==
    \/ /\ started < MaxCalls
       /\ started' = started + 1
       /\ UNCHANGED jobs
       /\ \/ JobFires \/ CallSimulateDay("req")
          \/ CallConfigRunning("req")
    \/ RunDay("sched") \/ RunStock("sched")
    \/ RunDay("req") \/ RunStock("req")
    \/ RunConfig("req")

SpecSchedule == InitSchedule /\ [][NextSchedule]_vars

(***************************************************************************)
(* Properties.  R is the thread that runs the operations of the            *)
(* sequential specifications; Done(op) says its call of op has returned    *)
(* and nothing was called since.                                           *)
(***************************************************************************)
R == th["req"]
S == th["sched"]

Done(op) == R.pc = "idle" /\ R.op = op

\* the accepted order of R's place_order call follows an accepted order for
\* the same item, which was placed when nothing was pending for it
TwoOrders ==
    /\ Done("place_order") /\ R.raised = "none"
    /\ R.prev.op = "place_order"
    /\ R.prev.item = R.args.item
    /\ R.prev.before.restock_pending = 0
    /\ R.prev.before.restock_eta = None

\* C1: after two place_order calls for the same item with no apply_restocks
\* in between, restock_pending is the sum of the two quantities and
\* restock_eta is the first call's today + lead_time_days, whatever today and
\* lead_time_days the second call passed; the second call returns both.
C1_TwoOrdersKeepFirstEta ==
    TwoOrders =>
        LET item == R.args.item
            eta1 == OrderEta(R.prev.today, R.prev.lead_time_days)
        IN  /\ inventory[item].restock_pending = R.prev.qty + R.args.qty
            /\ inventory[item].restock_eta = eta1
            /\ R.prev.ret.restock_eta = eta1
            /\ R.ret = [item |-> item,
                        restock_pending |-> R.prev.qty + R.args.qty,
                        restock_eta |-> eta1]

\* C1, witness: the second call passed another today and another lead time,
\* which give a later date than the first call's ETA
C1_Witness ==
    /\ TwoOrders
    /\ R.args.today # R.prev.today
    /\ R.args.lead_time_days # R.prev.lead_time_days
    /\ ToOrdinal(OrderEta(R.args.today, R.args.lead_time_days))
          > ToOrdinal(inventory[R.args.item].restock_eta)

\* R's apply_restocks(upto) call follows an accepted order and upto is the
\* ETA that order returned
OrderThenRestock ==
    /\ Done("apply_restocks")
    /\ R.prev.op = "place_order"
    /\ R.args.upto = R.prev.ret.restock_eta

\* C2 as stated: place_order(item, qty, ...) followed by
\* apply_restocks(returned ETA) increases the item's stock by exactly qty and
\* leaves restock_pending = 0 and restock_eta = None.
C2_StockUpByQty ==
    OrderThenRestock =>
        LET item == R.prev.item
        IN  /\ inventory[item].stock = R.prev.before.stock + R.prev.qty
            /\ inventory[item].restock_pending = 0
            /\ inventory[item].restock_eta = None

\* C2 amended: place_order followed by apply_restocks(returned ETA) increases
\* the item's stock by the restock_pending the order returned, which is what
\* was pending before plus qty (exactly qty when nothing was pending), and
\* leaves restock_pending = 0 and restock_eta = None.
C2_StockUpByPending ==
    OrderThenRestock =>
        LET item == R.prev.item
        IN  /\ R.prev.ret.restock_pending
                  = R.prev.before.restock_pending + R.prev.qty
            /\ inventory[item].stock
                  = R.prev.before.stock + R.prev.ret.restock_pending
            /\ inventory[item].restock_pending = 0
            /\ inventory[item].restock_eta = None

\* C2, witness: the order was placed when nothing was pending and the restock
\* raised the stock by its quantity
C2_Witness ==
    /\ OrderThenRestock
    /\ R.prev.before.restock_pending = 0
    /\ inventory[R.prev.item].stock = R.prev.before.stock + R.prev.qty
    /\ R.ret # <<>>

\* C3: a place_order call for an item not in the inventory or with
\* qty < min_qty raises, and the whole inventory is as it was before the call.
C3_FailedOrderChangesNothing ==
    (Done("place_order")
        /\ (R.args.item \notin Items \/ R.args.qty < R.args.min_qty))
    => /\ R.raised = "ValueError"
       /\ inventory = R.pre.inventory

\* C3, witness: an order below the minimum for an item that has an order
\* pending
C3_Witness ==
    /\ Done("place_order")
    /\ R.args.item \in Items
    /\ R.args.qty < R.args.min_qty
    /\ R.raised = "ValueError"
    /\ inventory[R.args.item].restock_pending > 0

\* C5: deduct_stock(item, qty) returns True exactly when the item is known
\* and stock >= qty, and then lowers that stock by qty and changes nothing
\* else; otherwise it returns False and leaves the inventory unchanged; no
\* stock is below 0.
C5_DeductStock ==
    Done("deduct_stock") =>
        LET item == R.args.item
            qty == R.args.qty
            before == R.pre.inventory
            can == item \in Items /\ before[item].stock >= qty
        IN  /\ R.ret = can
            /\ can => inventory =
                        [before EXCEPT ![item].stock = before[item].stock - qty]
            /\ ~can => inventory = before
            /\ \A i \in Items : inventory[i].stock >= 0

\* C5, witness: a deduction refused because qty > stock, with stock left
C5_Witness ==
    /\ Done("deduct_stock")
    /\ R.args.item \in Items
    /\ R.ret = FALSE
    /\ inventory[R.args.item].stock > 0
    /\ R.args.qty > inventory[R.args.item].stock

\* R's apply_restocks(upto) call follows an apply_restocks call with the same
\* upto
RestockTwice ==
    /\ Done("apply_restocks")
    /\ R.prev.op = "apply_restocks"
    /\ R.prev.upto = R.args.upto

\* C7: a second apply_restocks(upto) right after a first one with the same
\* upto returns an empty list and leaves the inventory as the first call
\* left it.
C7_RestockIdempotent ==
    RestockTwice =>
        /\ R.ret = <<>>
        /\ inventory = R.pre.inventory

\* C7, witness: the first of the two calls applied an order
C7_Witness == RestockTwice /\ R.prev.ret # <<>>

(***************************************************************************)
(* Properties of the application (SpecDay).                                *)
(***************************************************************************)
\* C4: in every state reached by orders, price changes and day-transitions
\* (which apply restocks and deduct stock), every item has
\* restock_pending > 0 if and only if its restock_eta is set.
C4_PendingIffEta ==
    \A i \in Items :
        (inventory[i].restock_pending > 0) <=> (inventory[i].restock_eta # None)

\* C4, witness: a day-transition has applied the order of one item while the
\* order of another item is still pending
C4_Witness ==
    /\ Done("simulate_day")
    /\ R.ret.restocks_applied # <<>>
    /\ \E i \in Items : inventory[i].restock_pending > 0

\* item i of inventory inv can be bought: in stock and not above the limit
Eligible(inv, i, limit) == inv[i].stock > 0 /\ inv[i].sell_price <= limit

\* the units of inv that can be bought, items k .. of ItemOrder
RECURSIVE EligibleFrom(_, _, _)
EligibleFrom(inv, limit, k) ==
    IF k > Len(ItemOrder) THEN 0
    ELSE (IF inv[ItemOrder[k]].sell_price <= limit
          THEN inv[ItemOrder[k]].stock ELSE 0)
         + EligibleFrom(inv, limit, k + 1)

EligibleStock(inv, limit) == EligibleFrom(inv, limit, 1)

\* the Sale Records R's operation appended
Appended == SubSeq(sales, Len(R.pre.sales) + 1, Len(sales))

\* the Sales Ledger is as it was when R's operation was called
LedgerUnchanged == sales = R.pre.sales

NoStockDecrease ==
    \A i \in Items : inventory[i].stock >= R.pre.inventory[i].stock

\* C8 as stated: if every item is out of stock or priced above
\* max_affordable_price when simulate_day is invoked, the summary has
\* sales_count = 0, the Sales Ledger is unchanged and no stock decreases.
C8_NoneEligibleAtInvocation ==
    (Done("simulate_day")
        /\ \A i \in Items : ~Eligible(R.pre.inventory, i, R.price_limit))
    => /\ R.ret.sales_count = 0
       /\ LedgerUnchanged
       /\ NoStockDecrease

\* C8 amended: if every item is out of stock or priced above
\* max_affordable_price once simulate_day has applied the restocks due on the
\* simulated date, no Sale Record is appended, no stock decreases and the
\* summary's sales_count is the qty total of the records the ledger already
\* held for that date (0 when it held none).
C8_NoneEligibleAfterRestocks ==
    (Done("simulate_day")
        /\ \A i \in Items : ~Eligible(R.inv0, i, R.price_limit))
    => /\ LedgerUnchanged
       /\ NoStockDecrease
       /\ R.ret.sales_count
             = SumField(SalesForDate(R.pre.sales, R.simulated_date), "qty")
       /\ (SalesForDate(R.pre.sales, R.simulated_date) = <<>>
              => R.ret.sales_count = 0)

\* C8, witness: a day with a sale target above 0 on which the only item in
\* stock is priced above the limit
C8_Witness ==
    /\ Done("simulate_day")
    /\ \A i \in Items : ~Eligible(R.inv0, i, R.price_limit)
    /\ \E i \in Items : R.inv0[i].stock > 0
    /\ R.sales_count > 0
    /\ R.ret.sales_count = 0

\* C9: a simulate_day run appends min(T, A) Sale Records, T the day's target
\* and A the stock, after the due restocks, of the items priced within the
\* limit; the stock of those items drops by the same number, and when fewer
\* than T are sold no such item is left in stock.
C9_SalesAreMinOfTargetAndStock ==
    Done("simulate_day") =>
        LET T == R.sales_count
            A == EligibleStock(R.inv0, R.price_limit)
            n == Len(sales) - Len(R.pre.sales)
        IN  /\ T >= 0
            /\ n = (IF T <= A THEN T ELSE A)
            /\ SubSeq(sales, 1, Len(R.pre.sales)) = R.pre.sales
            /\ EligibleStock(inventory, R.price_limit) = A - n
            /\ n < T => \A i \in Items : ~Eligible(inventory, i, R.price_limit)

\* C9, witness: the day's target was 2 and selling stopped after the one unit
\* that was in stock
C9_Witness ==
    /\ Done("simulate_day")
    /\ R.sales_count = 2
    /\ EligibleStock(R.inv0, R.price_limit) = 1
    /\ Len(sales) = Len(R.pre.sales) + 1

\* the number of records of seq for item
RECURSIVE CountItem(_, _)
CountItem(seq, item) ==
    IF seq = <<>> THEN 0
    ELSE (IF Head(seq).item = item THEN 1 ELSE 0) + CountItem(Tail(seq), item)

\* C10 as stated: every Sale Record a simulate_day run appended has the
\* simulated date, qty 1, an item that was in stock and whose stock went down
\* by 1 for each of its records, revenue equal to the item's sell_price and
\* cogs equal to its cost_price as the inventory stores them (no price changes
\* during the run).
C10_SaleRecordFields ==
    Done("simulate_day") =>
        /\ \A k \in 1 .. Len(Appended) :
              LET rec == Appended[k]
              IN  /\ rec.date = R.simulated_date
                  /\ rec.qty = 1
                  /\ rec.item \in Items
                  /\ R.inv0[rec.item].stock > 0
                  /\ rec.revenue = inventory[rec.item].sell_price
                  /\ rec.cogs = inventory[rec.item].cost_price
        /\ \A i \in Items :
              R.inv0[i].stock - inventory[i].stock = CountItem(Appended, i)

\* C10 amended: as stated, but revenue and cogs are the item's sell_price and
\* cost_price rounded to 4 decimals.
C10_SaleRecordFieldsRounded ==
    Done("simulate_day") =>
        /\ \A k \in 1 .. Len(Appended) :
              LET rec == Appended[k]
              IN  /\ rec.date = R.simulated_date
                  /\ rec.qty = 1
                  /\ rec.item \in Items
                  /\ R.inv0[rec.item].stock > 0
                  /\ rec.revenue = Round4(inventory[rec.item].sell_price)
                  /\ rec.cogs = Round4(inventory[rec.item].cost_price)
        /\ \A i \in Items :
              R.inv0[i].stock - inventory[i].stock = CountItem(Appended, i)

\* C10, witness: a unit sold at a price with a fifth decimal
C10_Witness ==
    /\ Done("simulate_day")
    /\ Appended # <<>>
    /\ inventory[Appended[1].item].sell_price # Appended[1].revenue
    /\ inventory[Appended[1].item].stock = R.inv0[Appended[1].item].stock - 1

(***************************************************************************)
(* Properties of the application with its two threads (SpecConc).          *)
(***************************************************************************)
\* C6: in every state, also while simulate_day, orders, restocks and price
\* changes interleave, every item's stock and restock_pending are integers
\* not below 0.
C6_StockAndPendingNotNegative ==
    \A i \in Items :
        /\ inventory[i].stock \in Nat
        /\ inventory[i].restock_pending \in Nat

\* C6, witness: simulate_day picked an item from the inventory it had read,
\* a request then wrote back an older inventory in which the item is out of
\* stock, and simulate_day's deduct_stock is about to return False for it
C6_Witness ==
    /\ S.pc = "ds_save"
    /\ S.sd_inv[S.item].stock > 0
    /\ S.inv[S.item].stock = 0
    /\ inventory[S.item].stock = 0

(***************************************************************************)
(* Properties of the day's Financial Entry (SpecAdmin).                    *)
(***************************************************************************)
\* the Sale Records of the date R's simulate_day simulated
DayRecords == SalesForDate(sales, R.simulated_date)

\* the summary R's simulate_day returned carries the entry stored for its
\* date, and its sales_count is the qty total of the date's records
SummaryCarriesEntry ==
    LET entry == financials[R.simulated_date]
    IN  /\ R.ret.date = R.simulated_date
        /\ R.ret.revenue = entry.revenue
        /\ R.ret.cogs = entry.cogs
        /\ R.ret.expenses = entry.expenses
        /\ R.ret.profit = entry.profit
        /\ R.ret.sales_count = SumField(DayRecords, "qty")

\* C11 as stated: when simulate_day for date d completes, the entry stored
\* for d has revenue and cogs equal to the sums over all Sale Records dated d
\* and expenses equal to the sum of the operating_expenses values, and the
\* summary carries the same amounts with sales_count the qty total.
C11_EntryIsSums ==
    Done("simulate_day") =>
        LET entry == financials[R.simulated_date]
        IN  /\ entry.revenue = SumField(DayRecords, "revenue")
            /\ entry.cogs = SumField(DayRecords, "cogs")
            /\ entry.expenses = SumValues(config.operating_expenses)
            /\ SummaryCarriesEntry

\* C11 amended: as stated, but expenses is the sum of the operating_expenses
\* values rounded to 4 decimals.
C11_EntryIsSumsRounded ==
    Done("simulate_day") =>
        LET entry == financials[R.simulated_date]
        IN  /\ entry.revenue = SumField(DayRecords, "revenue")
            /\ entry.cogs = SumField(DayRecords, "cogs")
            /\ entry.expenses = Round4(SumValues(config.operating_expenses))
            /\ SummaryCarriesEntry

\* C11, witness: a date simulated a second time without a new sale, its
\* earlier record counted, and the expenses charged
C11_Witness ==
    /\ Done("simulate_day")
    /\ LedgerUnchanged
    /\ DayRecords # <<>>
    /\ financials[R.simulated_date].revenue > 0
    /\ financials[R.simulated_date].expenses > 0

(***************************************************************************)
(* Properties of the Financial Ledger (SpecFin).                           *)
(***************************************************************************)
\* what the stored profit of entry e is above revenue - cogs - expenses
ProfitGap(e) == e.profit - (e.revenue - e.cogs - e.expenses)

\* amount x has at most 4 decimals
FourDecimals(x) == x % 10 = 0

\* the records and expenses R's update_daily was given have at most 4
\* decimals
FourDecimalInputs ==
    /\ \A k \in 1 .. Len(R.args.sales_records) :
          /\ FourDecimals(R.args.sales_records[k].revenue)
          /\ FourDecimals(R.args.sales_records[k].cogs)
    /\ \A c \in DOMAIN R.args.expenses_cfg :
          FourDecimals(R.args.expenses_cfg[c])

\* C12 as stated: every entry of the Financial Ledger satisfies
\* profit = revenue - cogs - expenses on the stored values.
C12_ProfitIdentity ==
    \A d \in DOMAIN financials : ProfitGap(financials[d]) = 0

\* C12 amended: on the stored values of every entry, profit differs from
\* revenue - cogs - expenses by at most 0.0002, and not at all when the
\* amounts the entry was computed from have at most 4 decimals.
C12_ProfitWithinRounding ==
    /\ \A d \in DOMAIN financials :
          /\ ProfitGap(financials[d]) <= 20
          /\ ProfitGap(financials[d]) >= -20
    /\ (Done("update_daily") /\ FourDecimalInputs)
          => ProfitGap(financials[R.args.date_iso]) = 0
    /\ (Done("simulate_day")
            /\ \A c \in DOMAIN config.operating_expenses :
                  FourDecimals(config.operating_expenses[c]))
          => ProfitGap(financials[R.simulated_date]) = 0

\* C12, witness: an entry of a day with sales and one computed from amounts
\* with a fifth decimal, whose fields were rounded apart
C12_Witness ==
    /\ Done("update_daily")
    /\ ~FourDecimalInputs
    /\ ProfitGap(financials[R.args.date_iso]) # 0
    /\ \E d \in DOMAIN financials :
          financials[d].revenue > 0 /\ ProfitGap(financials[d]) = 0

\* the entry that R's update_daily arguments give
EntryOfArgs ==
    LET revenue == SumField(R.args.sales_records, "revenue")
        cogs == SumField(R.args.sales_records, "cogs")
        expenses == SumValues(R.args.expenses_cfg)
    IN  [revenue |-> Round4(revenue), cogs |-> Round4(cogs),
         expenses |-> Round4(expenses),
         profit |-> Round4(revenue - cogs - expenses)]

\* R's update_daily call follows an update_daily call with the same arguments
UpdateTwice ==
    /\ Done("update_daily")
    /\ R.prev.op = "update_daily"
    /\ R.prev.args = R.args

\* C13: update_daily stores for its date the entry computed from its
\* arguments only, replacing the entry the date had, and leaves the entries
\* of all other dates as they were; a second call with the same arguments
\* leaves the Financial Ledger as the first call left it.
C13_UpdateDailyOverwrites ==
    /\ Done("update_daily") =>
          /\ DOMAIN financials
                = (DOMAIN R.pre.financials) \cup {R.args.date_iso}
          /\ financials[R.args.date_iso] = EntryOfArgs
          /\ R.ret = EntryOfArgs
          /\ \A d \in (DOMAIN financials) \ {R.args.date_iso} :
                financials[d] = R.pre.financials[d]
    /\ UpdateTwice =>
          /\ financials = R.pre.financials
          /\ R.ret = R.prev.ret

\* C13, witness: the second of two identical calls, for a date whose entry
\* the first call had replaced, with an entry of another date in the ledger
C13_Witness ==
    /\ UpdateTwice
    /\ R.args.sales_records # <<>>
    /\ R.prev.ret = financials[R.args.date_iso]
    /\ \E d \in DOMAIN financials :
          d # R.args.date_iso /\ financials[d] # financials[R.args.date_iso]

(***************************************************************************)
(* Properties of the Simulation Clock, day-transitions following one       *)
(* another with no configuration update (SpecFin).                         *)
(***************************************************************************)
\* date b is the day after date a
DayAfter(a, b) ==
    IF a[3] < DaysInMonth(a[1], a[2]) THEN b = <<a[1], a[2], a[3] + 1>>
    ELSE IF a[2] < 12 THEN b = <<a[1], a[2] + 1, 1>>
    ELSE b = <<a[1] + 1, 1, 1>>

\* C14: a completed simulate_day has set last_simulated_date to the
\* current_date it read and current_date to the day after it; between
\* day-transitions, after n of them, current_date is n days after the first
\* date and last_simulated_date is the day before current_date.
C14_ClockAdvancesOneDay ==
    /\ Done("simulate_day") =>
          /\ config.simulation.last_simulated_date = R.simulated_date
          /\ DayAfter(R.simulated_date, config.simulation.current_date)
    /\ R.pc = "idle" =>
          /\ ToOrdinal(config.simulation.current_date)
                = ToOrdinal(StartDate) + started
          /\ IF started = 0
             THEN config.simulation.last_simulated_date = None
             ELSE DayAfter(config.simulation.last_simulated_date,
                           config.simulation.current_date)

\* C14, witness: the second day-transition has moved the clock over the end
\* of the month
C14_Witness ==
    /\ Done("simulate_day")
    /\ started = 2
    /\ R.simulated_date = <<2025, 8, 31>>
    /\ config.simulation.current_date = <<2025, 9, 1>>

\* simulate_day is running in the frame fr
DayRunning(fr) == fr.op = "simulate_day" /\ fr.pc # "idle"

\* the simulate_day call of fr has read current_date (simulation.py line 38)
DayRead(fr) == fr.op = "simulate_day" /\ fr.simulated_date # None

\* C15: at most one day-transition executes at a time: the simulate_day of the
\* scheduler and the simulate_day of the /simulate/day handler never overlap,
\* and no two invocations have read the same current_date.
C15_OneDayTransitionAtATime ==
    /\ ~(DayRunning(R) /\ DayRunning(S))
    /\ DayRead(R) /\ DayRead(S) => R.simulated_date # S.simulated_date

\* the order R's place_order accepted is not due on any date the scheduler's
\* simulate_day has read
OrderNotDue == DayRead(S) => IsoLess(S.simulated_date, R.ret.restock_eta)

\* C16: no update is lost when set_price, adjust_prices or place_order runs
\* in one thread while simulate_day runs in another: once the handler's call
\* has returned, the inventory holds the price it set, or the quantity it
\* ordered as long as the order is not due.
C16_NoUpdateLost ==
    /\ Done("set_price") /\ R.raised = "none"
          => inventory[R.args.item].sell_price = R.args.price
    /\ Done("adjust_prices")
          => \A k \in DOMAIN R.args.prices \cap Items :
                inventory[k].sell_price = R.args.prices[k]
    /\ Done("place_order") /\ R.raised = "none" /\ OrderNotDue
          => inventory[R.args.item].restock_pending >= R.args.qty

\* C17: set_price on an item absent from the inventory fails and leaves the
\* inventory unchanged; adjust_prices never fails on unknown keys: it sets
\* sell_price for exactly the keys present in the inventory, adds no item and
\* changes no field other than sell_price.
C17_UnknownItemInPriceUpdates ==
    /\ Done("set_price") /\ R.args.item \notin DOMAIN R.pre.inventory
          => R.raised = "ValueError" /\ inventory = R.pre.inventory
    /\ Done("adjust_prices")
          => /\ R.raised = "none"
             /\ DOMAIN inventory = DOMAIN R.pre.inventory
             /\ \A i \in DOMAIN inventory :
                   inventory[i] =
                       IF i \in DOMAIN R.args.prices
                       THEN [R.pre.inventory[i] EXCEPT
                                !.sell_price = R.args.prices[i]]
                       ELSE R.pre.inventory[i]

\* C17, witness: adjust_prices returned for a map with a known and an unknown
\* key; the known item has the new price and the other item its old one
C17_Witness ==
    /\ Done("adjust_prices")
    /\ UnknownItem \in DOMAIN R.args.prices
    /\ inventory["Coke"].sell_price = R.args.prices["Coke"]
    /\ inventory["Coke"].sell_price # DefaultInventory["Coke"].sell_price
    /\ inventory["Chips"].sell_price = DefaultInventory["Chips"].sell_price

\* a configuration field simulate_day requires is missing
RequiredFieldMissing ==
    \/ ~Has(config, "operating_expenses")
    \/ ~Has(config.simulation, "current_date")
    \/ ~Has(config.sales_simulation, "min_sales_per_day")
    \/ ~Has(config.sales_simulation, "max_sales_per_day")
    \/ ~Has(config.sales_simulation, "max_affordable_price")

\* C18: simulate_day fails, rather than substituting a default, whenever
\* min_sales_per_day, max_sales_per_day, max_affordable_price,
\* operating_expenses or current_date is missing from the configuration; a
\* missing day-of-week multiplier is the only default: the day is simulated
\* with the multiplier 1.0.
C18_MissingConfigFieldFails ==
    Done("simulate_day") =>
        IF RequiredFieldMissing
        THEN R.raised = "KeyError"
        ELSE /\ R.raised = "none"
             /\ ~Has(config.sales_simulation.dow_multipliers,
                     Weekday(R.simulated_date))
                   => R.sales_count
                         \in config.sales_simulation.min_sales_per_day
                              .. config.sales_simulation.max_sales_per_day

\* the list a is the beginning of the list b
IsPrefix(a, b) == Len(a) <= Len(b) /\ SubSeq(b, 1, Len(a)) = a

\* C19: the Sales Ledger is append-only: every step of record_sale, of
\* simulate_day, of set_price and of adjust_prices leaves the ledger as it was
\* or adds records at its end; no existing record is removed, reordered or
\* modified.
C19_SalesLedgerAppendOnly == [][IsPrefix(sales, sales')]_vars

\* the sums of the four amounts over the entries of the dates in days
RECURSIVE LedgerSums(_)
LedgerSums(days) ==
    IF days = {}
    THEN [revenue |-> 0, cogs |-> 0, expenses |-> 0, profit |-> 0]
    ELSE LET d == CHOOSE x \in days : TRUE
             rest == LedgerSums(days \ {d})
         IN  [revenue |-> financials[d].revenue + rest.revenue,
              cogs |-> financials[d].cogs + rest.cogs,
              expenses |-> financials[d].expenses + rest.expenses,
              profit |-> financials[d].profit + rest.profit]

\* C20: aggregate_profitability returns, for each of revenue, cogs, expenses
\* and profit, the plain sum of the field over all entries of the Financial
\* Ledger, with the per-day map unchanged; on an empty ledger the totals are
\* all zero and the map is empty; the ledger is not modified.
C20_TotalsArePlainSums ==
    Done("aggregate_profitability") =>
        /\ R.raised = "none"
        /\ R.ret.total = LedgerSums(DOMAIN financials)
        /\ R.ret.per_day = financials
        /\ financials = R.pre.financials
        /\ financials = <<>> =>
              /\ R.ret.per_day = <<>>
              /\ \A k \in DOMAIN R.ret.total : R.ret.total[k] = 0

\* C20, witness: the totals of a ledger of two entries, one of them a loss
C20_Witness ==
    /\ Done("aggregate_profitability")
    /\ Cardinality(DOMAIN financials) = 2
    /\ \E d \in DOMAIN financials : financials[d].profit < 0
    /\ R.ret.total.revenue > 0
    /\ R.ret.total.expenses > 0

(***************************************************************************)
(* Properties of the readers of the ledgers (SpecLedger, SpecSales).       *)
(***************************************************************************)
\* C21: latest_day returns the key of the Financial Ledger that is the
\* chronologically latest day, whatever the order the entries were written
\* in, and None when the ledger is empty.
C21_LatestDayIsLatest ==
    Done("latest_day") =>
        IF DOMAIN financials = {}
        THEN R.ret = None
        ELSE /\ R.ret \in DOMAIN financials
             /\ \A e \in DOMAIN financials :
                   ToOrdinal(e) <= ToOrdinal(R.ret)

\* C21, witness: the three days are in the ledger, the entry written last is
\* the one of the earliest day, and latest_day returned 2025-09-10
C21_Witness ==
    /\ Done("latest_day")
    /\ DOMAIN financials = LedgerDateArgs
    /\ R.prev.op = "update_daily"
    /\ R.prev.args.date_iso = <<2025, 8, 30>>
    /\ R.ret = <<2025, 9, 10>>

\* the records of s that satisfy the test, in the order of s
RECURSIVE Kept(_, _, _)
Kept(s, field, value) ==
    IF s = <<>> THEN <<>>
    ELSE LET r == Head(s)
             hit == IF field = "date" THEN r.date = value ELSE r.item = value
         IN  IF hit THEN <<r>> \o Kept(Tail(s), field, value)
             ELSE Kept(Tail(s), field, value)

\* C22: after any sequence of record_sale calls, sales_for_date(d) returns
\* exactly the recorded sales whose date is d, in the order they were
\* recorded, and cogs_per_product() maps each item that has a sale, and no
\* other, to the sum of cogs over all its recorded sales of all dates.
C22_SalesQueries ==
    /\ Done("sales_for_date")
          => R.ret = Kept(sales, "date", R.args.date_iso)
    /\ Done("cogs_per_product")
          => /\ DOMAIN R.ret = {i \in Items : Kept(sales, "item", i) # <<>>}
             /\ \A i \in DOMAIN R.ret :
                   R.ret[i] = SumField(Kept(sales, "item", i), "cogs")

\* C22, witness: cogs_per_product after Coke was recorded on two dates and
\* Chips once
C22_Witness ==
    /\ Done("cogs_per_product")
    /\ Len(sales) = 3
    /\ sales[1].item = "Coke" /\ sales[2].item = "Chips"
    /\ sales[3].item = "Coke" /\ sales[3].date # sales[1].date
    /\ R.ret["Coke"] = sales[1].cogs + sales[3].cogs
    /\ R.ret["Chips"] = sales[2].cogs

(***************************************************************************)
(* Further properties of the order book (SpecOrders).                      *)
(***************************************************************************)
\* the order of item i was due when R's apply_restocks(upto) was called
WasDue(i) ==
    /\ R.pre.inventory[i].restock_pending > 0
    /\ R.pre.inventory[i].restock_eta # None
    /\ ~IsoLess(R.args.upto, R.pre.inventory[i].restock_eta)

\* C23: apply_restocks(upto) moves the pending quantity of every due item
\* into its stock and clears its restock_pending and restock_eta; an item
\* whose ETA is later than upto or that has nothing pending is left
\* unchanged; no cost_price or sell_price changes; the returned list has
\* exactly one entry per due item, with qty the item's former
\* restock_pending.
C23_RestocksChangeOnlyDueItems ==
    Done("apply_restocks") =>
        \A i \in Items :
            LET was == R.pre.inventory[i]
                entries == {k \in DOMAIN R.ret : R.ret[k].item = i}
            IN  IF WasDue(i)
                THEN /\ inventory[i] =
                           [was EXCEPT !.stock = @ + was.restock_pending,
                                       !.restock_pending = 0,
                                       !.restock_eta = None]
                     /\ Cardinality(entries) = 1
                     /\ \A k \in entries :
                           R.ret[k].qty = was.restock_pending
                ELSE /\ inventory[i] = was
                     /\ entries = {}

\* C23, witness: one item's order was due and applied while the other item's
\* order, due later, stayed pending
C23_Witness ==
    /\ Done("apply_restocks")
    /\ \E i, j \in Items :
          /\ WasDue(i) /\ ~WasDue(j)
          /\ inventory[i].stock > R.pre.inventory[i].stock
          /\ inventory[j].restock_pending > 0
          /\ IsoLess(R.args.upto, inventory[j].restock_eta)

(***************************************************************************)
(* Further properties of the day-transition (SpecDay, SpecConfig).         *)
(***************************************************************************)
\* the order of item i was pending with an ETA on or before the date R's
\* simulate_day simulated
DueOnDay(i) ==
    /\ R.pre.inventory[i].restock_pending > 0
    /\ R.pre.inventory[i].restock_eta # None
    /\ ToOrdinal(R.pre.inventory[i].restock_eta)
          <= ToOrdinal(R.simulated_date)

\* the restocks_applied of R's summary name item i
Restocked(i) ==
    \E k \in DOMAIN R.ret.restocks_applied :
        R.ret.restocks_applied[k].item = i

\* C24: a simulate_day whose date is on or after the ETA of a pending order
\* moves the order into stock before it attempts any sale, so the inventory
\* it sells from holds the units; a simulate_day whose date is earlier than
\* the ETA leaves the order pending.
C24_RestockOnEtaBeforeSales ==
    Done("simulate_day") /\ R.raised = "none" =>
        \A i \in Items :
            LET was == R.pre.inventory[i]
            IN  IF DueOnDay(i)
                THEN /\ Restocked(i)
                     /\ R.inv0[i].stock = was.stock + was.restock_pending
                     /\ inventory[i].restock_pending = 0
                     /\ inventory[i].restock_eta = None
                ELSE /\ ~Restocked(i)
                     /\ R.inv0[i].stock = was.stock
                     /\ inventory[i].restock_pending = was.restock_pending
                     /\ inventory[i].restock_eta = was.restock_eta

\* C24, witness: Chips was out of stock with an order due on the simulated
\* date, and a unit of it was sold that day
C24_Witness ==
    /\ Done("simulate_day") /\ R.raised = "none"
    /\ DueOnDay("Chips")
    /\ R.pre.inventory["Chips"].restock_eta = R.simulated_date
    /\ R.pre.inventory["Chips"].stock = 0
    /\ \E k \in DOMAIN sales :
          sales[k].item = "Chips" /\ sales[k].date = R.simulated_date

\* the order of item i was due on the date R's simulate_day read, if it read
\* one
DueOnDayRead(i) == R.simulated_date # None /\ DueOnDay(i)

\* C25: when simulate_day fails, the restocks it applied and the sales it
\* recorded remain in the ledgers, no Financial Entry is written, and
\* current_date and last_simulated_date are unchanged, so that the next
\* simulate_day reads the same date.
C25_FailedDayKeepsWhatItWrote ==
    Done("simulate_day") /\ R.raised = "KeyError" =>
        /\ IsPrefix(R.pre.sales, sales)
        /\ \A k \in DOMAIN Appended : Appended[k].date = R.simulated_date
        /\ \A i \in Items :
              LET was == R.pre.inventory[i]
                  due == DueOnDayRead(i)
              IN  /\ inventory[i].stock
                        = was.stock + (IF due THEN was.restock_pending ELSE 0)
                            - CountItem(Appended, i)
                  /\ inventory[i].restock_pending
                        = IF due THEN 0 ELSE was.restock_pending
        /\ financials = R.pre.financials
        /\ config = R.pre.config

\* C25, witness: operating_expenses is missing; simulate_day applied the
\* order of Chips, recorded a sale and failed
C25_Witness ==
    /\ Done("simulate_day") /\ R.raised = "KeyError"
    /\ ~Has(config, "operating_expenses")
    /\ DueOnDayRead("Chips")
    /\ inventory["Chips"].restock_pending = 0
    /\ Len(Appended) > 0
    /\ R.simulated_date \notin DOMAIN financials
    /\ config.simulation.current_date = R.simulated_date

\* the quantity the list of applied restocks names for item i
RECURSIVE QtyFor(_, _)
QtyFor(list, i) ==
    IF list = <<>> THEN 0
    ELSE (IF Head(list).item = i THEN Head(list).qty ELSE 0)
         + QtyFor(Tail(list), i)

\* the restock quantity R's operation applied to item i
OpApplied(i) ==
    IF R.op = "simulate_day" THEN QtyFor(R.ret.restocks_applied, i)
    ELSE IF R.op = "apply_restocks" THEN QtyFor(R.ret, i)
    ELSE 0

\* the quantity of item i R's operation ordered successfully
OpOrdered(i) ==
    IF R.op = "place_order" /\ R.raised = "none" /\ R.args.item = i
    THEN R.args.qty ELSE 0

\* C26: unit conservation, operation by operation: each place_order,
\* apply_restocks, set_price, adjust_prices and simulate_day that has run to
\* its end leaves, for every item, stock + number of Sale Records raised by
\* the restock quantity it applied, and restock_pending raised by the
\* quantity it ordered less the quantity it applied.  Added up over a
\* sequence of operations these are stock = initial stock + applied - sold
\* and ordered = restock_pending + applied.
C26_UnitConservation ==
    (/\ R.pc = "idle"
     /\ R.op \in {"place_order", "apply_restocks", "set_price",
                  "adjust_prices", "simulate_day"})
    => \A i \in Items :
          /\ inventory[i].stock + CountItem(sales, i)
                = R.pre.inventory[i].stock + CountItem(R.pre.sales, i)
                    + OpApplied(i)
          /\ inventory[i].restock_pending
                = R.pre.inventory[i].restock_pending
                    + OpOrdered(i) - OpApplied(i)

\* C26, witness: a day-transition applied the order of two Chips and sold
\* one of them, after a day on which the only Coke was sold
C26_Witness ==
    /\ Done("simulate_day")
    /\ OpApplied("Chips") = 2
    /\ CountItem(Appended, "Chips") = 1
    /\ inventory["Chips"].stock = 1
    /\ CountItem(sales, "Coke") = 1
    /\ inventory["Coke"].stock = 0

(***************************************************************************)
(* Further properties of the two threads (SpecOverlap, SpecConc).          *)
(***************************************************************************)
\* C27: no unit is sold twice: while the scheduler's simulate_day and the
\* simulate_day of /simulate/day interleave, the number of Sale Records of an
\* item never exceeds the number of units removed from the item's stock.
C27_NoUnitSoldTwice ==
    \A i \in Items :
        CountItem(sales, i) <= OverlapInventory[i].stock - inventory[i].stock

\* the Sale Records the scheduler's simulate_day has appended
DaySales == SubSeq(sales, Len(S.pre.sales) + 1, Len(sales))

C29_OneEntryPerDay ==
    /\ R.pc = "idle" =>
          /\ Cardinality(DOMAIN financials) = started
          /\ \A d \in DOMAIN financials :
                /\ ToOrdinal(StartDate) <= ToOrdinal(d)
                /\ ToOrdinal(d) < ToOrdinal(StartDate) + started
    /\ Done("latest_day") =>
          R.ret = config.simulation.last_simulated_date

\* C29, witness: latest_day after two day-transitions
C29_Witness ==
    /\ Done("latest_day")
    /\ started = 2
    /\ DOMAIN financials = {StartDate, <<2025, 8, 31>>}
    /\ R.ret = <<2025, 8, 31>>

(***************************************************************************)
(* The lead time of an order (SpecOrders).                                 *)
(***************************************************************************)
\* R's apply_restocks(upto) call follows an accepted order placed on date D
\* with lead time L, and upto is earlier than D + L
RestockBeforeLeadTime ==
    /\ Done("apply_restocks")
    /\ R.prev.op = "place_order"
    /\ ToOrdinal(R.args.upto)
          < ToOrdinal(R.prev.today) + R.prev.lead_time_days

\* C30 as stated: the units ordered by place_order on date D with lead time L
\* do not enter stock before date D + L, including those of an order placed
\* while an earlier order for the item is pending: an earlier apply_restocks
\* adds at most what was pending before the order.
C30_LeadTimeRespected ==
    RestockBeforeLeadTime =>
        inventory[R.prev.item].stock
            <= R.pre.inventory[R.prev.item].stock
                 + R.prev.before.restock_pending

\* C30 amended: the units of an order placed on date D with lead time L while
\* nothing is pending for the item do not enter stock before date D + L; the
\* units of an order placed while an earlier order is pending enter stock
\* together with that order, on its ETA, which can be before D + L.
C30_LeadTimeOfFirstOrder ==
    /\ RestockBeforeLeadTime /\ R.prev.before.restock_pending = 0
          => inventory[R.prev.item].stock = R.pre.inventory[R.prev.item].stock
    /\ (/\ Done("apply_restocks")
        /\ R.prev.op = "place_order"
        /\ R.prev.before.restock_pending > 0)
          => inventory[R.prev.item].stock
                = R.pre.inventory[R.prev.item].stock
                    + (IF ToOrdinal(R.prev.before.restock_eta)
                            <= ToOrdinal(R.args.upto)
                       THEN R.prev.before.restock_pending + R.prev.qty
                       ELSE 0)

\* C30, witness: the second order's units entered stock with the first
\* order, before the second order's own lead time had passed
C30_Witness ==
    /\ RestockBeforeLeadTime
    /\ R.prev.before.restock_pending > 0
    /\ inventory[R.prev.item].stock
          = R.pre.inventory[R.prev.item].stock
              + R.prev.before.restock_pending + R.prev.qty


\* the /config handler is not running and config.json says the simulation is
\* stopped: the last update of the running flag has returned and cleared it
Stopped ==
    /\ R.pc = "idle"
    /\ ~config.simulation.running

\* C31: once a configuration update has set simulation.running to false, the
\* scheduler does not invoke simulate_day until running is set to true again:
\* no step taken while the simulation is stopped starts simulate_day in the
\* scheduler's thread.
C31_StoppedSchedulerInvokesNothing ==
    [][Stopped => ~(S.pc = "idle" /\ S'.pc = "sd_cfg")]_vars

================================================================================
